---- MODULE Spec2Model ----
(***************************************************************************)
(* Model of the cortado tokenizer (src/src/tokenizer.rs).                  *)
(*                                                                         *)
(* A Tokenizer is a record                                                 *)
(*   istream : the characters not yet pulled from the source (Chars<'a>)   *)
(*   last    : the one-character lookahead                                 *)
(*   eof     : the end-of-input flag                                       *)
(*   line, col : the position counters                                     *)
(* Characters are one-character strings.  Every call of tokenize is one    *)
(* step; the calls made so far on each instance are logged in `out`.       *)
(* `collected` is the vector a run of tests::collect_tokens returns.       *)
(***************************************************************************)
EXTENDS Integers, Sequences, FiniteSets, TLC

VARIABLES src, tk, out, collected

vars == <<src, tk, out, collected>>

(* Bounds of the model *)
MaxLen == 4
MaxCalls == 6
MaxPieces == 3

(***************************************************************************)
(* Character classes (char::is_whitespace, is_alphabetic, is_numeric),     *)
(* restricted to the characters the model draws source texts from.         *)
(***************************************************************************)
is_whitespace(c) == c \in {" ", "\n", "\t"}

is_alphabetic(c) ==
  c \in {"a", "b", "d", "e", "f", "g", "h", "i", "l", "m", "n", "o", "r", "s",
         "t", "u", "v", "w"}

is_numeric(c) == c \in {"0", "1", "2"}

(***************************************************************************)
(* Token values.  Every token is a record of the same shape:               *)
(*   kind  the enum variant                                                *)
(*   text  the String payload of Ident / Num / Str                         *)
(*   err, ch, eline, ecol  the format string of an Error message and the   *)
(*                         arguments substituted into it                   *)
(***************************************************************************)
Token(kind) ==
  [kind |-> kind, text |-> <<>>, err |-> "", ch |-> "", eline |-> 0, ecol |-> 0]

TokenText(kind, buf) ==
  [kind |-> kind, text |-> buf, err |-> "", ch |-> "", eline |-> 0, ecol |-> 0]

(* variant: the column written into the message is counted from 0 *)
unknown_character_zero_based(c, line, col) ==
  [kind |-> "Error", text |-> <<>>, err |-> "Unknown character",
   ch |-> c, eline |-> line, ecol |-> col - 1]

unknown_character(c, line, col) ==
  [kind |-> "Error", text |-> <<>>, err |-> "Unknown character",
   ch |-> c, eline |-> line, ecol |-> col]

unterminated_newline(line, col) ==
  [kind |-> "Error", text |-> <<>>, err |-> "Unterminated string: newline",
   ch |-> "", eline |-> line, ecol |-> col]

unterminated_eof(line, col) ==
  [kind |-> "Error", text |-> <<>>, err |-> "Unterminated string: end of input",
   ch |-> "", eline |-> line, ecol |-> col]

TokenAt(token, line, col) == [token |-> token, line |-> line, col |-> col]

(***************************************************************************)
(* Tokenizer::new                                                          *)
(***************************************************************************)
(* variant: the lookahead starts as a character that is not whitespace *)
new_not_blank(source) ==
  [istream |-> source, last |-> "+", eof |-> FALSE, line |-> 1, col |-> 0]

new(source) ==
  [istream |-> source, last |-> " ", eof |-> FALSE, line |-> 1, col |-> 0]

(***************************************************************************)
(* Tokenizer::next : advance the cursor by one character                   *)
(***************************************************************************)
(* variant: the column is not reset when a newline is consumed *)
next_no_col_reset(t) ==
  IF t.eof THEN t
  ELSE IF t.istream # <<>>
       THEN LET c == Head(t.istream) IN
            [t EXCEPT !.istream = Tail(@),
                      !.last = c,
                      !.line = IF c = "\n" THEN @ + 1 ELSE @,
                      !.col = @ + 1]
       ELSE [t EXCEPT !.eof = TRUE]

(* variant: the column is also counted up when no character is left *)
next_eof_counts(t) ==
  IF t.eof THEN t
  ELSE IF t.istream # <<>>
       THEN LET c == Head(t.istream) IN
            [t EXCEPT !.istream = Tail(@),
                      !.last = c,
                      !.line = IF c = "\n" THEN @ + 1 ELSE @,
                      !.col = IF c = "\n" THEN 1 ELSE @ + 1]
       ELSE [t EXCEPT !.eof = TRUE, !.col = @ + 1]

next(t) ==
  IF t.eof THEN t
  ELSE IF t.istream # <<>>
       THEN LET c == Head(t.istream) IN
            [t EXCEPT !.istream = Tail(@),
                      !.last = c,
                      !.line = IF c = "\n" THEN @ + 1 ELSE @,
                      !.col = IF c = "\n" THEN 1 ELSE @ + 1]
       ELSE [t EXCEPT !.eof = TRUE]

(* variant: one whitespace character is skipped, not all of them *)
skip_whitespace_once(t) ==
  IF ~t.eof /\ is_whitespace(t.last) THEN next(t) ELSE t

(* the whitespace loop at the head of tokenize *)
RECURSIVE skip_whitespace(_)
skip_whitespace(t) ==
  IF ~t.eof /\ is_whitespace(t.last) THEN skip_whitespace(next(t)) ELSE t

(***************************************************************************)
(* Tokenizer::read_word                                                    *)
(***************************************************************************)
(* variant: `-` does not continue a word *)
is_word_char_no_hyphen(c) ==
  is_alphabetic(c) \/ is_numeric(c) \/ c = "?" \/ c = "!" \/ c = "_"

is_word_char(c) ==
  is_alphabetic(c) \/ is_numeric(c) \/ c = "?" \/ c = "!" \/ c = "-" \/ c = "_"

RECURSIVE read_word_loop(_, _)
read_word_loop(t, buf) ==
  IF ~t.eof /\ is_word_char(t.last)
  THEN read_word_loop(next(t), Append(buf, t.last))
  ELSE [t |-> t, buf |-> buf]

keyword(buf) ==
  IF buf = <<"m", "e", "t", "h", "o", "d">> THEN Token("KwMethod")
  ELSE IF buf = <<"g", "i", "v", "e", "n">> THEN Token("KwGiven")
  ELSE IF buf = <<"w", "h", "e", "n">> THEN Token("KwWhen")
  ELSE IF buf = <<"d", "e", "f", "a", "u", "l", "t">> THEN Token("KwDefault")
  ELSE IF buf = <<"t", "r", "u", "e">> THEN Token("KwTrue")
  ELSE IF buf = <<"f", "a", "l", "s", "e">> THEN Token("KwFalse")
  ELSE TokenText("Ident", buf)

read_word(t) ==
  LET r == read_word_loop(t, <<>>) IN [t |-> r.t, token |-> keyword(r.buf)]

(***************************************************************************)
(* Tokenizer::read_num                                                     *)
(***************************************************************************)
RECURSIVE read_num_loop(_, _)
read_num_loop(t, buf) ==
  IF ~t.eof /\ (is_numeric(t.last) \/ t.last = "_")
  THEN read_num_loop(next(t), Append(buf, t.last))
  ELSE [t |-> t, buf |-> buf]

(* variant: the underscores are stripped from the lexeme *)
read_num_strip(t) ==
  LET r == read_num_loop(t, <<>>)
  IN [t |-> r.t, token |-> TokenText("Num", SelectSeq(r.buf, LAMBDA c : c # "_"))]

read_num(t) ==
  LET r == read_num_loop(t, <<>>) IN [t |-> r.t, token |-> TokenText("Num", r.buf)]

(***************************************************************************)
(* Tokenizer::read_str                                                     *)
(***************************************************************************)
RECURSIVE read_str_loop(_, _)
read_str_loop(t, buf) ==
  IF ~t.eof /\ t.last # "\""
  THEN IF t.last = "\n"
       THEN [t |-> t, token |-> unterminated_newline(t.line, t.col)]
       ELSE read_str_loop(next(t), Append(buf, t.last))
  ELSE IF t.eof
       THEN [t |-> t, token |-> unterminated_eof(t.line, t.col)]
       ELSE [t |-> next(t), token |-> TokenText("Str", buf)]

(* variant: the opening quote is not skipped before the loop *)
read_str_no_skip(t) == read_str_loop(t, <<>>)

read_str(t) == read_str_loop(next(t), <<>>)

(***************************************************************************)
(* Tokenizer::tokenize                                                     *)
(***************************************************************************)
single_char(c) ==
  CASE c = "." -> "Dot"
    [] c = "," -> "Comma"
    [] c = "(" -> "LParen"
    [] c = ")" -> "RParen"
    [] c = "{" -> "LBrace"
    [] c = "}" -> "RBrace"
    [] c = ":" -> "Colon"
    [] c = ";" -> "Semicolon"
    [] c = "+" -> "Plus"
    [] c = "-" -> "Minus"
    [] c = "*" -> "Star"
    [] c = "&" -> "And"
    [] c = "|" -> "Or"
    [] OTHER -> ""

two_char(c) ==
  CASE c = "/" -> [with |-> "NotEqual", without |-> "Slash"]
    [] c = "<" -> [with |-> "LessThan", without |-> "Less"]
    [] c = ">" -> [with |-> "GreaterThan", without |-> "Greater"]
    [] c = "=" -> [with |-> "Equal", without |-> "Assign"]
    [] OTHER -> [with |-> "", without |-> ""]

(* variant: `advance` is left true when the next character is not `=` *)
operator_always_advance(t) ==
  LET t1 == next(t) IN
  IF ~t1.eof /\ t1.last = "="
  THEN [t |-> next(t1), token |-> Token(two_char(t.last).with)]
  ELSE [t |-> next(t1), token |-> Token(two_char(t.last).without)]

(* the arms `/`, `<`, `>`, `=` : advance, then look at the next character *)
operator(t) ==
  LET t1 == next(t) IN
  IF ~t1.eof /\ t1.last = "="
  THEN [t |-> next(t1), token |-> Token(two_char(t.last).with)]
  ELSE [t |-> t1, token |-> Token(two_char(t.last).without)]

(* variant: the unknown character is consumed (`advance` left true) *)
dispatch_skip_unknown(t, line, col) ==
  IF single_char(t.last) # ""
  THEN [t |-> next(t), token |-> Token(single_char(t.last))]
  ELSE IF two_char(t.last).with # ""
  THEN operator(t)
  ELSE IF is_alphabetic(t.last) THEN read_word(t)
  ELSE IF is_numeric(t.last) THEN read_num(t)
  ELSE IF t.last = "\"" THEN read_str(t)
  ELSE [t |-> next(t), token |-> unknown_character(t.last, line, col)]

(* variant: a `-` at token start begins a word *)
dispatch_minus_word(t, line, col) ==
  IF t.last = "-" THEN read_word(t)
  ELSE IF single_char(t.last) # ""
  THEN [t |-> next(t), token |-> Token(single_char(t.last))]
  ELSE IF two_char(t.last).with # ""
  THEN operator(t)
  ELSE IF is_alphabetic(t.last) THEN read_word(t)
  ELSE IF is_numeric(t.last) THEN read_num(t)
  ELSE IF t.last = "\"" THEN read_str(t)
  ELSE [t |-> t, token |-> unknown_character(t.last, line, col)]

(* the match on self.last, with the trailing `if advance { self.next() }` *)
dispatch(t, line, col) ==
  IF single_char(t.last) # ""
  THEN [t |-> next(t), token |-> Token(single_char(t.last))]
  ELSE IF two_char(t.last).with # ""
  THEN operator(t)
  ELSE IF is_alphabetic(t.last) THEN read_word(t)
  ELSE IF is_numeric(t.last) THEN read_num(t)
  ELSE IF t.last = "\"" THEN read_str(t)
  ELSE [t |-> t, token |-> unknown_character(t.last, line, col)]

(* characters pulled from the source so far: the index of the lookahead *)
Consumed(t) == Len(src) - Len(t.istream)

(* result: the new tokenizer state, the returned TokenAt and the index in   *)
(* the source of the lookahead at the moment line and col were captured     *)
tokenize(t) ==
  LET t0 == skip_whitespace(t)
      line == t0.line
      col == t0.col
  IN IF t0.eof
     THEN [t |-> t0, ret |-> TokenAt(Token("Eof"), line, col), start |-> Consumed(t0)]
     ELSE LET r == dispatch(t0, line, col)
          IN [t |-> r.t, ret |-> TokenAt(r.token, line, col), start |-> Consumed(t0)]

(***************************************************************************)
(* tests::collect_tokens : the tokens of a fresh Tokenizer up to and       *)
(* including the first Eof or Error                                        *)
(***************************************************************************)
RECURSIVE collect_loop(_, _)
collect_loop(t, outv) ==
  LET r == tokenize(t)
      terminal == r.ret.token.kind \in {"Eof", "Error"}
      pushed == Append(outv, r.ret.token)
  IN IF terminal THEN pushed ELSE collect_loop(r.t, pushed)

collect_tokens(source) == collect_loop(new(source), <<>>)

(***************************************************************************)
(* Source texts                                                            *)
(***************************************************************************)
SeqsUpTo(A, n) == UNION {[1..k -> A] : k \in 0..n}

Chars == {"a", "1", " ", "\n", "\"", "=", "+", "#", "@"}

TypeOK ==
  /\ src \in SeqsUpTo(Chars, MaxLen)
  /\ DOMAIN tk = DOMAIN out
  /\ \A i \in DOMAIN out : Len(out[i]) <= MaxCalls
  /\ collected.done \in BOOLEAN
  /\ Len(collected.tokens) <= Len(src) + 1

(***************************************************************************)
(* One Tokenizer over a source text                                        *)
(***************************************************************************)
Init ==
  /\ src \in SeqsUpTo(Chars, MaxLen)
  /\ tk = [i \in {1} |-> new(src)]
  /\ out = [i \in {1} |-> <<>>]
  /\ collected = [done |-> FALSE, tokens |-> <<>>]

(* variant: the cursor, lookahead and counters are one state shared by     *)
(* all instances                                                           *)
Tokenize_shared(i) ==
  /\ Len(out[i]) < MaxCalls
  /\ LET r == tokenize(tk[i]) IN
       /\ tk' = [j \in DOMAIN tk |-> r.t]
       /\ out' = [out EXCEPT ![i] = Append(@, [ret |-> r.ret, start |-> r.start,
                                              pre |-> tk[i], post |-> r.t])]
  /\ UNCHANGED <<src, collected>>

(* a call of tokenize on instance i; the call is logged with the state     *)
(* before and after it                                                     *)
Tokenize(i) ==
  /\ Len(out[i]) < MaxCalls
  /\ LET r == tokenize(tk[i]) IN
       /\ tk' = [tk EXCEPT ![i] = r.t]
       /\ out' = [out EXCEPT ![i] = Append(@, [ret |-> r.ret, start |-> r.start,
                                              pre |-> tk[i], post |-> r.t])]
  /\ UNCHANGED <<src, collected>>

(* a run of tests::collect_tokens over the source text, on a Tokenizer of  *)
(* its own                                                                 *)
CollectTokens ==
  /\ ~collected.done
  /\ collected' = [done |-> TRUE, tokens |-> collect_tokens(src)]
  /\ UNCHANGED <<src, tk, out>>

Next ==
  \/ \E i \in DOMAIN tk : Tokenize(i)
  \/ CollectTokens

Spec == Init /\ [][Next]_vars

(***************************************************************************)
(* Two Tokenizers constructed independently over the same source text;     *)
(* their calls interleave in any order                                     *)
(***************************************************************************)
CharsPair == {"a", " ", "\n", "\"", "="}

InitPair ==
  /\ src \in SeqsUpTo(CharsPair, MaxLen)
  /\ tk = [i \in {1, 2} |-> new(src)]
  /\ out = [i \in {1, 2} |-> <<>>]
  /\ collected = [done |-> FALSE, tokens |-> <<>>]

SpecPair == InitPair /\ [][Next]_vars

(***************************************************************************)
(* One Tokenizer over a text of quotes, backslashes, newlines, blanks and  *)
(* letters (string literals)                                               *)
(***************************************************************************)
CharsStr == {"\"", "\\", "\n", " ", "a", "b"}

InitStr ==
  /\ src \in SeqsUpTo(CharsStr, MaxLen)
  /\ tk = [i \in {1} |-> new(src)]
  /\ out = [i \in {1} |-> <<>>]
  /\ collected = [done |-> FALSE, tokens |-> <<>>]

SpecStr == InitStr /\ [][Next]_vars

(***************************************************************************)
(* One Tokenizer over a text of operator characters, blanks, newlines and  *)
(* letters (one- and two-character operators)                              *)
(***************************************************************************)
CharsOp == {"/", "<", ">", "=", " ", "\n", "a"}

InitOp ==
  /\ src \in SeqsUpTo(CharsOp, MaxLen)
  /\ tk = [i \in {1} |-> new(src)]
  /\ out = [i \in {1} |-> <<>>]
  /\ collected = [done |-> FALSE, tokens |-> <<>>]

SpecOp == InitOp /\ [][Next]_vars

(***************************************************************************)
(* One Tokenizer over a text with one punctuation character c at any place *)
(* among operator characters, letters and blanks                           *)
(***************************************************************************)
Punctuation ==
  {".", ",", "(", ")", "{", "}", ":", ";", "+", "-", "*", "&", "|", "[", "]", "~"}

CharsPunct == {"&", "=", ">", "a", " "}

InitPunct ==
  /\ \E s \in SeqsUpTo(CharsPunct, MaxLen - 1) :
       \E p \in 0..Len(s) : \E c \in Punctuation :
         src = SubSeq(s, 1, p) \o <<c>> \o SubSeq(s, p + 1, Len(s))
  /\ tk = [i \in {1} |-> new(src)]
  /\ out = [i \in {1} |-> <<>>]
  /\ collected = [done |-> FALSE, tokens |-> <<>>]

SpecPunct == InitPunct /\ [][Next]_vars

(***************************************************************************)
(* One Tokenizer over a text put together from the reserved words, word    *)
(* characters, a blank and an operator (identifiers and keywords)          *)
(***************************************************************************)
Pieces ==
  {<<"m", "e", "t", "h", "o", "d">>, <<"g", "i", "v", "e", "n">>,
   <<"w", "h", "e", "n">>, <<"d", "e", "f", "a", "u", "l", "t">>,
   <<"t", "r", "u", "e">>, <<"f", "a", "l", "s", "e">>,
   <<"a">>, <<"-">>, <<"?">>, <<"_">>, <<"1">>, <<" ">>, <<"+">>}

RECURSIVE Flatten(_)
Flatten(ps) == IF ps = <<>> THEN <<>> ELSE Head(ps) \o Flatten(Tail(ps))

InitWord ==
  /\ \E ps \in SeqsUpTo(Pieces, MaxPieces) : src = Flatten(ps)
  /\ tk = [i \in {1} |-> new(src)]
  /\ out = [i \in {1} |-> <<>>]
  /\ collected = [done |-> FALSE, tokens |-> <<>>]

SpecWord == InitWord /\ [][Next]_vars

(***************************************************************************)
(* One Tokenizer over a text of digits, underscores, dots, letters and     *)
(* blanks (number literals)                                                *)
(***************************************************************************)
CharsNum == {"1", "2", "_", ".", "a", " "}

InitNum ==
  /\ src \in SeqsUpTo(CharsNum, MaxLen)
  /\ tk = [i \in {1} |-> new(src)]
  /\ out = [i \in {1} |-> <<>>]
  /\ collected = [done |-> FALSE, tokens |-> <<>>]

SpecNum == InitNum /\ [][Next]_vars

(***************************************************************************)
(* Vocabulary of the properties                                            *)
(***************************************************************************)
Kind(rec) == rec.ret.token.kind

IsTerminal(rec) == Kind(rec) \in {"Error", "Eof"}

(* instance i has made at least k calls *)
Made(i, k) == k <= Len(out[i])

(* the token of this call starts right after a newline of the source *)
AfterNewline(rec) == rec.start > 1 /\ src[rec.start - 1] = "\n"

(***************************************************************************)
(* C1: once a call of tokenize on a Tokenizer has returned an Error token, *)
(* no later call on that Tokenizer returns a token other than Error or     *)
(* Eof: lexing of the text after the bad input is never resumed.           *)
(***************************************************************************)
NoRecoveryAfterError ==
  \A i \in DOMAIN out : \A j, k \in 1..Len(out[i]) :
    (j < k /\ Kind(out[i][j]) = "Error") => IsTerminal(out[i][k])

(***************************************************************************)
(* C2: every TokenAt returned by tokenize, the Eof token included, has     *)
(* line >= 1 and col >= 1, for every source text (the empty one too).      *)
(***************************************************************************)
PositionsOneBased ==
  \A i \in DOMAIN out : \A k \in 1..Len(out[i]) :
    out[i][k].ret.line >= 1 /\ out[i][k].ret.col >= 1

(***************************************************************************)
(* C3: a returned token has column 1 exactly when its first character is   *)
(* the character right after a consumed newline.  The first character of   *)
(* the text, which no newline can precede, is counted as a line start      *)
(* here, so that the statement is not refuted by the first token alone.    *)
(***************************************************************************)
ColumnOneIffAfterNewline ==
  \A i \in DOMAIN out : \A k \in 1..Len(out[i]) :
    LET rec == out[i][k] IN
    Kind(rec) # "Eof" =>
      ((rec.ret.col = 1) <=> (rec.start = 1 \/ AfterNewline(rec)))

(* no call before the k-th one of instance i returned Error or Eof *)
UpToTerminal(i, k) == \A j \in 1..(k - 1) : ~IsTerminal(out[i][j])

(* the value of the line and col counters once the first n characters of   *)
(* the source have been consumed, computed from the text                   *)
NewlinesIn(n) == {j \in 1..n : src[j] = "\n"}

LineAt(n) == 1 + Cardinality(NewlinesIn(n))

ColAt(n) ==
  IF NewlinesIn(n) = {} THEN n
  ELSE n - (CHOOSE j \in NewlinesIn(n) : \A l \in NewlinesIn(n) : l <= j) + 1

PosLess(a, b) == a.line < b.line \/ (a.line = b.line /\ a.col < b.col)

(***************************************************************************)
(* C4: tokens are emitted in source order.  Up to and including the first  *)
(* terminal token of a Tokenizer: the recorded (line, col) of a token is   *)
(* the value of the counters at the token's first character (for Eof: at   *)
(* the end of the text), not at a later character; the line of a token is  *)
(* >= the line of the token before it; and the (line, col) of a token      *)
(* other than Eof is strictly greater than that of the token before it.    *)
(***************************************************************************)
SourceOrder ==
  \A i \in DOMAIN out : \A k \in 1..Len(out[i]) :
    UpToTerminal(i, k) =>
      LET rec == out[i][k] IN
      /\ rec.ret.line = LineAt(rec.start)
      /\ rec.ret.col = ColAt(rec.start)
      /\ k > 1 => rec.ret.line >= out[i][k - 1].ret.line
      /\ (k > 1 /\ Kind(rec) # "Eof") => PosLess(out[i][k - 1].ret, rec.ret)

(* a token of several characters, then a token on a later line *)
SourceOrderWitness ==
  \E i \in DOMAIN out : \E k \in 2..Len(out[i]) :
    /\ UpToTerminal(i, k)
    /\ Kind(out[i][k]) # "Eof"
    /\ Len(out[i][k - 1].ret.token.text) >= 2
    /\ out[i][k].ret.line > out[i][k - 1].ret.line

Lookahead(t) == IF Consumed(t) = 0 THEN 1 ELSE Consumed(t)

Remaining(t) == IF t.eof THEN <<>> ELSE SubSeq(src, Lookahead(t), Len(src))

AllWhitespace(s) == \A j \in 1..Len(s) : is_whitespace(s[j])

(* index of the first character at or after n that is not whitespace,      *)
(* 0 if there is none                                                      *)
FirstNonWhitespace(n) ==
  LET I == {j \in n..Len(src) : ~is_whitespace(src[j])}
  IN IF I = {} THEN 0 ELSE CHOOSE j \in I : \A l \in I : j <= l

(* index of the first character of the token a call in state t returns,    *)
(* 0 if no character is left for one                                       *)
TokenStart(t) == IF t.eof THEN 0 ELSE FirstNonWhitespace(Lookahead(t))

(* a character no arm of the match and no scanner accepts *)
IsUnknown(c) ==
  /\ ~is_whitespace(c)
  /\ single_char(c) = ""
  /\ two_char(c).with = ""
  /\ ~is_alphabetic(c)
  /\ ~is_numeric(c)
  /\ c # "\""

(***************************************************************************)
(* C6: tokenize returns Eof if and only if, after skipping leading         *)
(* whitespace, no source character remains; and once Eof has been returned *)
(* every later call returns Eof with the same line and col and leaves the  *)
(* Tokenizer (line, col, lookahead, eof flag) as it was.                   *)
(***************************************************************************)
EofTerminal ==
  \A i \in DOMAIN out : \A k \in 1..Len(out[i]) :
    LET rec == out[i][k] IN
    /\ (Kind(rec) = "Eof") <=> AllWhitespace(Remaining(rec.pre))
    /\ \A j \in 1..(k - 1) :
         Kind(out[i][j]) = "Eof" => (rec.ret = out[i][j].ret /\ rec.post = rec.pre)

(* Eof returned twice after a token and trailing whitespace *)
EofTerminalWitness ==
  \E i \in DOMAIN out : \E k \in 3..Len(out[i]) :
    /\ Kind(out[i][k]) = "Eof"
    /\ Kind(out[i][k - 1]) = "Eof"
    /\ ~IsTerminal(out[i][k - 2])
    /\ Len(src) >= 2
    /\ is_whitespace(src[Len(src)])

(***************************************************************************)
(* C7: when the first character of a token is not whitespace, not an       *)
(* operator or punctuation character, not alphabetic, not numeric and not  *)
(* a double quote, tokenize returns an Error token whose message names     *)
(* that character and carries the line:col of the TokenAt itself.          *)
(***************************************************************************)
UnknownCharacterReported ==
  \A i \in DOMAIN out : \A k \in 1..Len(out[i]) :
    LET rec == out[i][k]
        s == TokenStart(rec.pre)
    IN (s # 0 /\ IsUnknown(src[s])) =>
         /\ Kind(rec) = "Error"
         /\ rec.ret.token.err = "Unknown character"
         /\ rec.ret.token.ch = src[s]
         /\ rec.ret.token.eline = rec.ret.line
         /\ rec.ret.token.ecol = rec.ret.col
         /\ rec.start = s

(* an unknown character on a later line, after another token *)
UnknownCharacterWitness ==
  \E i \in DOMAIN out : \E k \in 2..Len(out[i]) :
    /\ TokenStart(out[i][k].pre) # 0
    /\ IsUnknown(src[TokenStart(out[i][k].pre)])
    /\ ~IsTerminal(out[i][k - 1])
    /\ out[i][k].ret.line >= 2

(* the state after a call has consumed the source up to and including      *)
(* index n: the lookahead is the character at n + 1, or eof is set         *)
CursorAfter(t, n) ==
  IF n < Len(src)
  THEN ~t.eof /\ Consumed(t) = n + 1 /\ t.last = src[n + 1]
  ELSE t.eof

(***************************************************************************)
(* C8: a string is decided by what comes first after the opening quote.    *)
(* A closing quote: the token is Str with exactly the characters between   *)
(* the two quotes (backslashes kept, quotes left out) and the character    *)
(* after the closing quote is the next lookahead.  A newline: the          *)
(* unterminated-string/newline Error.  The end of input: the               *)
(* unterminated-string/end-of-input Error.                                 *)
(***************************************************************************)
StringOutcome ==
  \A i \in DOMAIN out : \A k \in 1..Len(out[i]) :
    LET rec == out[i][k]
        s == TokenStart(rec.pre)
        J == {j \in (s + 1)..Len(src) : src[j] \in {"\"", "\n"}}
        e == CHOOSE j \in J : \A l \in J : j <= l
    IN (s # 0 /\ src[s] = "\"") =>
         IF J = {}
         THEN Kind(rec) = "Error"
              /\ rec.ret.token.err = "Unterminated string: end of input"
         ELSE IF src[e] = "\n"
         THEN Kind(rec) = "Error"
              /\ rec.ret.token.err = "Unterminated string: newline"
         ELSE /\ Kind(rec) = "Str"
              /\ rec.ret.token.text = SubSeq(src, s + 1, e - 1)
              /\ CursorAfter(rec.post, e)

(* a string with content, backslash included, and a character after it *)
StringOutcomeWitness ==
  \E i \in DOMAIN out : \E k \in 1..Len(out[i]) :
    /\ Kind(out[i][k]) = "Str"
    /\ \E j \in 1..Len(out[i][k].ret.token.text) : out[i][k].ret.token.text[j] = "\\"
    /\ ~out[i][k].post.eof
    /\ ~is_whitespace(out[i][k].post.last)

(***************************************************************************)
(* Comments as the specification describes them: `#` opens a comment that  *)
(* runs to the end of the line or of the input.  AfterTrivia(n) is the     *)
(* index of the first character at or after n that is neither whitespace   *)
(* nor part of a comment, 0 if there is none.                              *)
(***************************************************************************)
EndOfLine(n) ==
  LET I == {j \in n..Len(src) : src[j] = "\n"}
  IN IF I = {} THEN Len(src) + 1 ELSE CHOOSE j \in I : \A l \in I : j <= l

RECURSIVE AfterTrivia(_)
AfterTrivia(n) ==
  IF n > Len(src) THEN 0
  ELSE IF is_whitespace(src[n]) THEN AfterTrivia(n + 1)
  ELSE IF src[n] = "#" THEN AfterTrivia(EndOfLine(n))
  ELSE n

(***************************************************************************)
(* C9: comments are skipped.  Before each token whitespace and comments    *)
(* (`#` through end of line or end of input) are consumed, in any mix, and *)
(* no token and no Error is emitted for them: the token returned is the    *)
(* first token after them, with its own start position, or Eof if nothing  *)
(* follows.  Stated for the calls up to the first terminal token.          *)
(***************************************************************************)
CommentsSkipped ==
  \A i \in DOMAIN out : \A k \in 1..Len(out[i]) :
    UpToTerminal(i, k) =>
      LET rec == out[i][k]
          s == IF rec.pre.eof THEN 0 ELSE AfterTrivia(Lookahead(rec.pre))
      IN IF s = 0
         THEN Kind(rec) = "Eof"
         ELSE /\ rec.start = s
              /\ rec.ret.line = LineAt(s)
              /\ rec.ret.col = ColAt(s)

(***************************************************************************)
(* C10: for a first character c among `/`, `<`, `>`, `=`: if the character *)
(* right after c is `=`, tokenize returns NotEqual / LessThan /            *)
(* GreaterThan / Equal and consumes both characters; otherwise it returns  *)
(* Slash / Less / Greater / Assign, consumes only c, and the character     *)
(* after c is the lookahead the next call starts from; if c is the last    *)
(* character of the input the next call returns Eof.                       *)
(***************************************************************************)
OperatorWithEqual(c) ==
  CASE c = "/" -> "NotEqual"
    [] c = "<" -> "LessThan"
    [] c = ">" -> "GreaterThan"
    [] c = "=" -> "Equal"

OperatorAlone(c) ==
  CASE c = "/" -> "Slash"
    [] c = "<" -> "Less"
    [] c = ">" -> "Greater"
    [] c = "=" -> "Assign"

OperatorLookahead ==
  \A i \in DOMAIN out : \A k \in 1..Len(out[i]) :
    LET rec == out[i][k]
        s == TokenStart(rec.pre)
    IN (s # 0 /\ src[s] \in {"/", "<", ">", "="}) =>
         /\ rec.start = s
         /\ IF s < Len(src) /\ src[s + 1] = "="
            THEN /\ rec.ret.token = Token(OperatorWithEqual(src[s]))
                 /\ CursorAfter(rec.post, s + 1)
            ELSE /\ rec.ret.token = Token(OperatorAlone(src[s]))
                 /\ CursorAfter(rec.post, s)
                 /\ k < Len(out[i]) =>
                      IF FirstNonWhitespace(s + 1) = 0
                      THEN Kind(out[i][k + 1]) = "Eof"
                      ELSE out[i][k + 1].start = FirstNonWhitespace(s + 1)

(* a two-character operator, then a one-character operator whose next      *)
(* character starts the token after it                                     *)
OperatorLookaheadWitness ==
  \E i \in DOMAIN out : \E k \in 1..(Len(out[i]) - 2) :
    /\ Kind(out[i][k]) \in {"NotEqual", "LessThan", "GreaterThan", "Equal"}
    /\ Kind(out[i][k + 1]) \in {"Slash", "Less", "Greater", "Assign"}
    /\ out[i][k + 2].start = out[i][k + 1].start + 1
    /\ ~IsTerminal(out[i][k + 2])

(***************************************************************************)
(* C11: the token vocabulary is complete.  `[`, `]` and `~` at token start *)
(* each produce their own token and consume exactly one character, and `=` *)
(* right before `>` produces one arrow token that consumes both; none of   *)
(* them produces an Error or a sequence of other tokens.                   *)
(***************************************************************************)
VocabularyComplete ==
  \A i \in DOMAIN out : \A k \in 1..Len(out[i]) :
    LET rec == out[i][k]
        s == TokenStart(rec.pre)
    IN /\ (s # 0 /\ src[s] = "[") =>
            (rec.ret.token = Token("LBracket") /\ CursorAfter(rec.post, s))
       /\ (s # 0 /\ src[s] = "]") =>
            (rec.ret.token = Token("RBracket") /\ CursorAfter(rec.post, s))
       /\ (s # 0 /\ src[s] = "~") =>
            (rec.ret.token = Token("Tilde") /\ CursorAfter(rec.post, s))
       /\ (s # 0 /\ s < Len(src) /\ src[s] = "=" /\ src[s + 1] = ">") =>
            (rec.ret.token = Token("Arrow") /\ CursorAfter(rec.post, s + 1))

(***************************************************************************)
(* C12: when the first character of a token is one of                      *)
(* . , ( ) { } : ; + - * & | tokenize returns the token of that character  *)
(* and consumes exactly that character, whatever follows it: `&&` is two   *)
(* tokens and a `-` at token start is Minus, never the start of a word.    *)
(***************************************************************************)
SingleCharToken(c) ==
  CASE c = "." -> "Dot"
    [] c = "," -> "Comma"
    [] c = "(" -> "LParen"
    [] c = ")" -> "RParen"
    [] c = "{" -> "LBrace"
    [] c = "}" -> "RBrace"
    [] c = ":" -> "Colon"
    [] c = ";" -> "Semicolon"
    [] c = "+" -> "Plus"
    [] c = "-" -> "Minus"
    [] c = "*" -> "Star"
    [] c = "&" -> "And"
    [] c = "|" -> "Or"

SingleCharTokens ==
  \A i \in DOMAIN out : \A k \in 1..Len(out[i]) :
    LET rec == out[i][k]
        s == TokenStart(rec.pre)
    IN (s # 0 /\ src[s] \in {".", ",", "(", ")", "{", "}", ":", ";",
                             "+", "-", "*", "&", "|"}) =>
         /\ rec.start = s
         /\ rec.ret.token = Token(SingleCharToken(src[s]))
         /\ CursorAfter(rec.post, s)

(* `&&` as two tokens, then `-` right before a letter as Minus and a word *)
SingleCharTokensWitness ==
  \E i \in DOMAIN out : \E k \in 1..(Len(out[i]) - 3) :
    /\ Kind(out[i][k]) = "And"
    /\ Kind(out[i][k + 1]) = "And"
    /\ out[i][k + 1].start = out[i][k].start + 1
    /\ Kind(out[i][k + 2]) = "Minus"
    /\ Kind(out[i][k + 3]) = "Ident"
    /\ out[i][k + 3].start = out[i][k + 2].start + 1

(* index of the last character of the longest run of characters            *)
(* satisfying P that starts at n (n itself is taken to satisfy P)          *)
RunEnd(n, P(_)) ==
  LET I == {j \in n..Len(src) : ~P(src[j])}
  IN IF I = {} THEN Len(src) ELSE (CHOOSE j \in I : \A l \in I : j <= l) - 1

(***************************************************************************)
(* C13: starting at an alphabetic character, the scan consumes the longest *)
(* run of characters that are alphabetic, numeric or one of ? ! - _ ; the  *)
(* token is a keyword token if and only if the whole run is exactly one of *)
(* method, given, when, default, true, false, and otherwise Ident carrying *)
(* exactly the run; the first character not in the run is the lookahead of *)
(* the next call.                                                          *)
(***************************************************************************)
InWordRun(c) == is_alphabetic(c) \/ is_numeric(c) \/ c \in {"?", "!", "-", "_"}

WordToken(run) ==
  CASE run = <<"m", "e", "t", "h", "o", "d">> -> Token("KwMethod")
    [] run = <<"g", "i", "v", "e", "n">> -> Token("KwGiven")
    [] run = <<"w", "h", "e", "n">> -> Token("KwWhen")
    [] run = <<"d", "e", "f", "a", "u", "l", "t">> -> Token("KwDefault")
    [] run = <<"t", "r", "u", "e">> -> Token("KwTrue")
    [] run = <<"f", "a", "l", "s", "e">> -> Token("KwFalse")
    [] OTHER -> [Token("Ident") EXCEPT !.text = run]

WordScan ==
  \A i \in DOMAIN out : \A k \in 1..Len(out[i]) :
    LET rec == out[i][k]
        s == TokenStart(rec.pre)
        e == RunEnd(s, InWordRun)
    IN (s # 0 /\ is_alphabetic(src[s])) =>
         /\ rec.start = s
         /\ rec.ret.token = WordToken(SubSeq(src, s, e))
         /\ CursorAfter(rec.post, e)

(* a reserved word continued by `-` is one Ident; a reserved word on its   *)
(* own is a keyword                                                        *)
WordScanWitness ==
  \E i \in DOMAIN out : \E k \in 1..Len(out[i]) :
    /\ Kind(out[i][k]) = "Ident"
    /\ Len(out[i][k].ret.token.text) >= 6
    /\ SubSeq(out[i][k].ret.token.text, 1, 5) = <<"w", "h", "e", "n", "-">>

(***************************************************************************)
(* C14: starting at a numeric character, the scan consumes the longest run *)
(* of digits and underscores and returns a number token whose lexeme is    *)
(* exactly that run, underscores kept; the first character not in the run, *)
(* a letter right after the digits included, is the lookahead of the next  *)
(* call.                                                                   *)
(***************************************************************************)
InNumRun(c) == is_numeric(c) \/ c = "_"

NumberScan ==
  \A i \in DOMAIN out : \A k \in 1..Len(out[i]) :
    LET rec == out[i][k]
        s == TokenStart(rec.pre)
        e == RunEnd(s, InNumRun)
    IN (s # 0 /\ is_numeric(src[s])) =>
         /\ rec.start = s
         /\ rec.ret.token = [Token("Num") EXCEPT !.text = SubSeq(src, s, e)]
         /\ CursorAfter(rec.post, e)

(* a number with an underscore, a letter right after it *)
NumberScanWitness ==
  \E i \in DOMAIN out : \E k \in 1..(Len(out[i]) - 1) :
    /\ Kind(out[i][k]) = "Num"
    /\ \E j \in 1..Len(out[i][k].ret.token.text) : out[i][k].ret.token.text[j] = "_"
    /\ Kind(out[i][k + 1]) = "Ident"
    /\ out[i][k + 1].start = out[i][k].start + Len(out[i][k].ret.token.text)

(***************************************************************************)
(* C15: a number scan consumes at most one decimal point, and only when a  *)
(* digit or underscore follows it right away, and then goes on with digits *)
(* and underscores; the token is a float literal carrying the raw lexeme   *)
(* (dot included) if a dot was consumed and an integer literal otherwise;  *)
(* a second `.`, or a `.` with no digit after it, is not consumed and      *)
(* starts the next token.                                                  *)
(***************************************************************************)
FloatScan ==
  \A i \in DOMAIN out : \A k \in 1..Len(out[i]) :
    LET rec == out[i][k]
        s == TokenStart(rec.pre)
        e1 == RunEnd(s, InNumRun)
        frac == e1 + 2 <= Len(src) /\ src[e1 + 1] = "." /\ InNumRun(src[e1 + 2])
        e2 == RunEnd(e1 + 2, InNumRun)
    IN (s # 0 /\ is_numeric(src[s])) =>
         IF frac
         THEN /\ rec.ret.token = [Token("Float") EXCEPT !.text = SubSeq(src, s, e2)]
              /\ CursorAfter(rec.post, e2)
         ELSE /\ rec.ret.token = [Token("Num") EXCEPT !.text = SubSeq(src, s, e1)]
              /\ CursorAfter(rec.post, e1)

(* index of the first call of instance i that returned Error or Eof,       *)
(* 0 if there is none yet                                                  *)
FirstTerminal(i) ==
  LET I == {k \in 1..Len(out[i]) : IsTerminal(out[i][k])}
  IN IF I = {} THEN 0 ELSE CHOOSE k \in I : \A l \in I : k <= l

(***************************************************************************)
(* C16: the sequence built over tokenize yields exactly the non-terminal   *)
(* tokens tokenize returns, stops as soon as Eof or Error is reached, and  *)
(* never yields the terminal Error value to its consumer.                  *)
(***************************************************************************)
SequenceView ==
  collected.done =>
    /\ \A j \in 1..Len(collected.tokens) :
         collected.tokens[j].kind \notin {"Error", "Eof"}
    /\ \A i \in DOMAIN out :
         FirstTerminal(i) # 0 =>
           collected.tokens = [j \in 1..(FirstTerminal(i) - 1) |-> out[i][j].ret.token]

(* number of source characters a Tokenizer is done with: all of them once  *)
(* eof is set, otherwise those before the lookahead                        *)
Committed(t) ==
  IF t.eof THEN Len(src)
  ELSE IF Consumed(t) = 0 THEN 0 ELSE Consumed(t) - 1

(***************************************************************************)
(* C17: for a source text of n characters, repeated calls of tokenize      *)
(* return a terminal token (Eof or Error) after at most n + 1 calls; every *)
(* call that returns a non-terminal token consumes at least one source     *)
(* character; the cursor never moves backward and never past the end of    *)
(* the text.                                                               *)
(***************************************************************************)
TerminationProgress ==
  /\ \A i \in DOMAIN out : \A k \in 1..Len(out[i]) :
       LET rec == out[i][k] IN
       /\ (UpToTerminal(i, k) /\ ~IsTerminal(rec)) => k <= Len(src)
       /\ ~IsTerminal(rec) => Committed(rec.post) > Committed(rec.pre)
       /\ Committed(rec.post) >= Committed(rec.pre)
       /\ Consumed(rec.post) >= Consumed(rec.pre)
       /\ Consumed(rec.post) <= Len(src)
  /\ collected.done => Len(collected.tokens) <= Len(src) + 1

(* a text of n >= 3 characters whose first terminal token is call n + 1 *)
TerminationProgressWitness ==
  \E i \in DOMAIN out :
    /\ Len(src) >= 3
    /\ FirstTerminal(i) = Len(src) + 1
    /\ collected.done
    /\ Len(collected.tokens) = Len(src) + 1

(* the newlines among the characters a call pulled from the source *)
NewlinesPulled(rec) ==
  {j \in (Consumed(rec.pre) + 1)..Consumed(rec.post) : src[j] = "\n"}

(***************************************************************************)
(* C18: every cursor advance that consumes a character c changes the       *)
(* counters in one of two ways: for a newline, line goes up by 1 and col   *)
(* becomes 1; otherwise col goes up by 1 and line stays; an advance that   *)
(* finds no character left only sets eof and leaves line and col alone.    *)
(* Stated over the characters each call of tokenize pulls: line goes up by *)
(* the number of newlines among them, col is 1 plus the number of          *)
(* characters pulled after the last of these newlines, or goes up by the   *)
(* number of characters pulled if there is no newline among them.          *)
(***************************************************************************)
CursorUpdateRule ==
  \A i \in DOMAIN out : \A k \in 1..Len(out[i]) :
    LET rec == out[i][k]
        N == NewlinesPulled(rec)
        lastNl == CHOOSE j \in N : \A l \in N : l <= j
    IN /\ rec.post.line = rec.pre.line + Cardinality(N)
       /\ rec.post.col = IF N = {}
                         THEN rec.pre.col + (Consumed(rec.post) - Consumed(rec.pre))
                         ELSE 1 + (Consumed(rec.post) - lastNl)
       /\ rec.post.eof => Consumed(rec.post) = Len(src)

(* a call that pulls a newline, then more characters, then finds the end *)
CursorUpdateRuleWitness ==
  \E i \in DOMAIN out : \E k \in 1..Len(out[i]) :
    /\ NewlinesPulled(out[i][k]) # {}
    /\ Consumed(out[i][k].post) \notin NewlinesPulled(out[i][k])
    /\ out[i][k].post.eof
    /\ ~out[i][k].pre.eof
    /\ out[i][k].pre.col >= 1

(***************************************************************************)
(* C19: for both unterminated-string errors the line:col written in the    *)
(* message after "Unterminated string started at" is the position of the   *)
(* opening quote: the line and col of the TokenAt that carries the Error.  *)
(***************************************************************************)
StringErrorPosition ==
  \A i \in DOMAIN out : \A k \in 1..Len(out[i]) :
    LET rec == out[i][k] IN
    (Kind(rec) = "Error"
       /\ rec.ret.token.err \in {"Unterminated string: newline",
                                 "Unterminated string: end of input"}) =>
      (rec.ret.token.eline = rec.ret.line /\ rec.ret.token.ecol = rec.ret.col)

(***************************************************************************)
(* C20: an unknown-character Error leaves the offending character in the   *)
(* lookahead: every later call of tokenize on that Tokenizer returns the   *)
(* same TokenAt (same message, line and col) and leaves the same state,    *)
(* so neither Eof nor any other token is ever reached.                     *)
(***************************************************************************)
IsUnknownError(rec) ==
  Kind(rec) = "Error" /\ rec.ret.token.err = "Unknown character"

UnknownCharacterRepeats ==
  \A i \in DOMAIN out : \A j \in 1..Len(out[i]) :
    IsUnknownError(out[i][j]) =>
      /\ ~out[i][j].post.eof
      /\ out[i][j].post.last = out[i][j].ret.token.ch
      /\ Consumed(out[i][j].post) = out[i][j].start
      /\ \A k \in (j + 1)..Len(out[i]) :
           /\ out[i][k].ret = out[i][j].ret
           /\ out[i][k].post = out[i][j].post

(* the same Error three times, after a token and with text left behind it *)
UnknownCharacterRepeatsWitness ==
  \E i \in DOMAIN out : \E k \in 2..(Len(out[i]) - 2) :
    /\ ~IsTerminal(out[i][k - 1])
    /\ IsUnknownError(out[i][k])
    /\ IsUnknownError(out[i][k + 2])
    /\ out[i][k].start < Len(src)
    /\ ~is_whitespace(src[Len(src)])

====
